---- MODULE Spec2Model ----
(***************************************************************************)
(* Model of the package-completion route of plct-archrv-pkg-bot:           *)
(* `GET /delete/{pkgname}/{status}?token=...` in server/src/routes.rs.     *)
(* Every `.await` of the handler is one step, so concurrent requests       *)
(* interleave exactly where the async runtime may switch between them.     *)
(* The store (module sql) and the notifier (module tg) are collaborators   *)
(* whose calls may fail; their results are chosen nondeterministically.    *)
(***************************************************************************)
EXTENDS Integers, Sequences, FiniteSets, TLC

\* ---- bounds of the model ------------------------------------------------
NumInvocations == 2
NumPackages == 2
NumPackagers == 2
NumSeedMarks == 3
MaxSeeded == 2
NumStatusInputs == 2

PkgNames == <<"foo", "bar", "baz", "qux">>
Aliases == <<"alice", "bob", "carol", "dave">>
\* mark names a store may hold at start: in-vocabulary and foreign ones mixed
SeedMarkNames == <<"stuck", "custom", "ready", "outdated", "pinned", "failing">>

Invocations == 1..NumInvocations
Packages == {PkgNames[k] : k \in 1..NumPackages}
Packagers == {[tg_uid |-> 41 + k, alias |-> Aliases[k]] : k \in 1..NumPackagers}
SeedMarks == {SeedMarkNames[k] : k \in 1..NumSeedMarks}

\* inputs a caller may put in the path and the query
StatusNames == <<"ftbfs", "bogus", "leaf", "">>
StatusInputs == {StatusNames[k] : k \in 1..NumStatusInputs}
TokenInputs == {"secret", "wrong"}

\* errors the collaborators may return
StoreErrors == {"database is locked"}
NotFoundError == "no rows returned by a query"
NotifyErrors == {"telegram request failed"}

\* ---- values ---------------------------------------------------------------
\* Result<T, E>
Ok(v) == [ok |-> TRUE, val |-> v]
Err(e) == [ok |-> FALSE, val |-> e]

\* State.token: the configured secret
Token == "secret"

\* A text is the sequence of the pieces format! puts together.
Contains(text, piece) == \E k \in 1..Len(text) : text[k] = piece

\* MsgResp constructors
NoResp == [code |-> 0, status |-> "None", msg |-> "", detail |-> <<>>]
new_200_msg(detail) ==
    [code |-> 200, status |-> "Ok", msg |-> "Request success", detail |-> detail]
new_500_resp(msg, detail) ==
    [code |-> 500, status |-> "Fail", msg |-> msg, detail |-> detail]
new_403_resp(detail) ==
    [code |-> 403, status |-> "Fail", msg |-> "forbidden", detail |-> detail]
new_400_resp(detail) ==
    [code |-> 400, status |-> "Fail", msg |-> "bad request", detail |-> detail]

\* a route that lets one more status through
AllowedStatus_any == {"ftbfs", "leaf", "bogus"}

\* the status values the route accepts
AllowedStatus == {"ftbfs", "leaf"}

\* the fixed vocabulary handed to remove_marks
matches ==
    {"outdated", "stuck", "ready", "outdated_dep", "missing_dep", "unknown",
     "ignore", "failing"}

Some(s) == [some |-> TRUE, names |-> s]
None == [some |-> FALSE, names |-> {}]

\* a call that passes no filter
mark_filter_none == None

\* the filter argument of the remove_marks call
mark_filter == Some(matches)

prefix == "<code>(auto-merge)</code>"

\* tg::gen_mention_link: a link that carries the user id and shows the alias
gen_mention_link(alias, tg_uid) ==
    <<"<a href=\"tg://user?id=", ToString(tg_uid), "\">", alias, "</a>">>

\* deleted.join(",")
RECURSIVE join(_, _)
join(seq, sep) ==
    IF Len(seq) = 0 THEN <<>>
    ELSE IF Len(seq) = 1 THEN <<seq[1]>>
    ELSE <<seq[1], sep>> \o join(Tail(seq), sep)

\* the texts of the four notifications; the Chinese literals of the source
\* ("has been packaged", "no longer marked as") are written in English, strings being ASCII here
\* a primary text that leaves the package name out
primary_text_nopkg(packager, pkgname) ==
    <<prefix, " ping ">> \o gen_mention_link(packager.alias, packager.tg_uid)
        \o <<" built">>
primary_text(packager, pkgname) ==
    <<prefix, " ping ">> \o gen_mention_link(packager.alias, packager.tg_uid)
        \o <<": ", pkgname, " built">>
\* a failure text that leaves the error out
failed_text_noerr(err) == <<prefix, " failed">>
failed_text(err) == <<prefix, " failed: ", err>>
\* an unmark text whose names are put together without the separator
unmark_text_nosep(pkgname, deleted) ==
    <<"<code>(auto-unmark)</code> ", pkgname, " built, no longer marked as: ">>
        \o deleted
unmark_text(pkgname, deleted) ==
    <<"<code>(auto-unmark)</code> ", pkgname, " built, no longer marked as: ">>
        \o join(deleted, ",")
\* a mark-failure text that leaves the error out
mark_fail_text_noerr(pkgname, err) == <<"fail to delete marks for ", pkgname>>
mark_fail_text(pkgname, err) ==
    <<"fail to delete marks for ", pkgname, ": \n<code>", err, "</code>">>

\* ---- the store ------------------------------------------------------------
\* sql::find_packager(ByPkgname): the packager the package is assigned to
find_packager(asg, pkgname) ==
    LET found == {p \in Packagers : <<pkgname, p.tg_uid>> \in asg}
    IN  {Ok(p) : p \in found}
            \cup (IF found = {} THEN {Err(NotFoundError)} ELSE {})
            \cup {Err(e) : e \in StoreErrors}

\* sql::drop_assign: outcomes as pairs of result and new assignment relation.
\* An error leaves open whether the row is gone.
drop_assign(asg, pkgname, tg_uid) ==
    LET gone == asg \ {<<pkgname, tg_uid>>}
    IN  {[res |-> Ok("unit"), asg |-> gone]}
            \cup {[res |-> Err(e), asg |-> a] : e \in StoreErrors, a \in {asg, gone}}

\* all orders in which a set of names may be listed
Orders(S) ==
    {s \in [1..Cardinality(S) -> S] : \A a, b \in 1..Cardinality(S) : a /= b => s[a] /= s[b]}

\* sql::remove_marks: outcomes as pairs of result and new mark relation.
\* One transaction: an error removes nothing.
remove_marks(mks, pkgname, filter) ==
    LET hit == {m \in {x[2] : x \in {y \in mks : y[1] = pkgname}} :
                    filter.some => m \in filter.names}
        left == mks \ {<<pkgname, m>> : m \in hit}
    IN  {[res |-> Ok(s), mks |-> left] : s \in Orders(hit)}
            \cup {[res |-> Err(e), mks |-> mks] : e \in StoreErrors}

\* Bot::send_message: delivered or refused
send_message(text) == {Ok("unit")} \cup {Err(e) : e \in NotifyErrors}

\* ---- state ----------------------------------------------------------------
VARIABLES
    assign,     \* store: set of <<pkgname, tg_uid>>
    marks,      \* store: set of <<pkgname, mark name>>
    marks0,     \* the marks the store held at start
    pc,         \* handler position of each invocation
    req,        \* its path and query
    packager,   \* the packager it resolved
    drop_err,   \* the error drop_assign gave it
    task,       \* the spawned cleanup task: position and results
    resp,       \* the response it returned
    log         \* the collaborator calls it made, in order

vars == <<assign, marks, marks0, pc, req, packager, drop_err, task, resp, log>>

NoReq == [pkgname |-> "", status |-> "", token |-> ""]
NoPackager == [tg_uid |-> 0, alias |-> ""]
NoTask == [pc |-> "none", removed |-> Err(""), sent |-> Err("")]

Call(op, arg, res) == [op |-> op, arg |-> arg, res |-> res]

UniqueAssign(asg) ==
    \A a, b \in asg : a[1] = b[1] => a = b

Init ==
    /\ assign \in {a \in SUBSET (Packages \X {p.tg_uid : p \in Packagers}) : UniqueAssign(a)}
    /\ marks \in {m \in SUBSET (Packages \X SeedMarks) : Cardinality(m) <= MaxSeeded}
    /\ marks0 = marks
    /\ pc = [i \in Invocations |-> "idle"]
    /\ req = [i \in Invocations |-> NoReq]
    /\ packager = [i \in Invocations |-> NoPackager]
    /\ drop_err = [i \in Invocations |-> ""]
    /\ task = [i \in Invocations |-> NoTask]
    /\ resp = [i \in Invocations |-> NoResp]
    /\ log = [i \in Invocations |-> <<>>]

\* ---- the handler ----------------------------------------------------------
\* the two checks in the other order
Validate_status_first(r) ==
    IF r.status \notin AllowedStatus
    THEN Err(new_400_resp(<<"Required 'ftbfs' or 'leaf', get ", r.status>>))
    ELSE IF r.token /= Token
    THEN Err(new_403_resp(<<"invalid token">>))
    ELSE Ok("pass")

\* lines 122-128: the two checks made before anything is awaited
Validate(r) ==
    IF r.token /= Token
    THEN Err(new_403_resp(<<"invalid token">>))
    ELSE IF r.status \notin AllowedStatus
    THEN Err(new_400_resp(<<"Required 'ftbfs' or 'leaf', get ", r.status>>))
    ELSE Ok("pass")

Return(i, r) ==
    /\ resp' = [resp EXCEPT ![i] = r]
    /\ pc' = [pc EXCEPT ![i] = "done"]

Goto(i, p) ==
    /\ pc' = [pc EXCEPT ![i] = p]
    /\ UNCHANGED resp

Logged(i, c) == log' = [log EXCEPT ![i] = Append(@, c)]

\* a request arrives and is checked
Request(i) ==
    /\ pc[i] = "idle"
    \* invocations are numbered in their order of arrival
    /\ \A j \in 1..(i - 1) : pc[j] /= "idle"
    /\ \E pkgname \in Packages, status \in StatusInputs, token \in TokenInputs :
        LET r == [pkgname |-> pkgname, status |-> status, token |-> token]
            v == Validate(r)
        IN  /\ req' = [req EXCEPT ![i] = r]
            /\ IF v.ok THEN Goto(i, "find_packager") ELSE Return(i, v.val)
    /\ UNCHANGED <<assign, marks, marks0, packager, drop_err, task, log>>

\* a lookup whose error is not returned: the handler goes on with no packager
FindPackager_no_return(i) ==
    /\ pc[i] = "find_packager"
    /\ \E r \in find_packager(assign, req[i].pkgname) :
        /\ Logged(i, Call("findPackager", <<req[i].pkgname>>, r))
        /\ packager' = [packager EXCEPT ![i] = IF r.ok THEN r.val ELSE NoPackager]
        /\ Goto(i, "send_primary")
    /\ UNCHANGED <<assign, marks, marks0, req, drop_err, task>>

\* lines 130-138
FindPackager(i) ==
    /\ pc[i] = "find_packager"
    /\ \E r \in find_packager(assign, req[i].pkgname) :
        /\ Logged(i, Call("findPackager", <<req[i].pkgname>>, r))
        /\ IF r.ok
           THEN /\ packager' = [packager EXCEPT ![i] = r.val]
                /\ Goto(i, "send_primary")
           ELSE /\ Return(i, new_500_resp("fail to fetch packager", <<r.val>>))
                /\ UNCHANGED packager
    /\ UNCHANGED <<assign, marks, marks0, req, drop_err, task>>

\* tokio::spawn of the cleanup task (lines 159-160, 192)
Spawned == [NoTask EXCEPT !.pc = "remove_marks"]

\* a primary send after which the cleanup task is spawned at once
SendPrimary_spawn_early(i) ==
    /\ pc[i] = "send_primary"
    /\ LET text == primary_text(packager[i], req[i].pkgname)
       IN  \E r \in send_message(text) :
            /\ Logged(i, Call("send", text, r))
            /\ IF r.ok
               THEN /\ Goto(i, "drop_assign")
                    /\ task' = [task EXCEPT ![i] = Spawned]
               ELSE /\ Return(i, new_500_resp("fail to send telegram message", <<r.val>>))
                    /\ UNCHANGED task
    /\ UNCHANGED <<assign, marks, marks0, req, packager, drop_err>>

\* a primary send whose error is not returned
SendPrimary_no_return(i) ==
    /\ pc[i] = "send_primary"
    /\ LET text == primary_text(packager[i], req[i].pkgname)
       IN  \E r \in send_message(text) :
            /\ Logged(i, Call("send", text, r))
            /\ Goto(i, "drop_assign")
    /\ UNCHANGED <<assign, marks, marks0, req, packager, drop_err, task>>

\* lines 140-150
SendPrimary(i) ==
    /\ pc[i] = "send_primary"
    /\ LET text == primary_text(packager[i], req[i].pkgname)
       IN  \E r \in send_message(text) :
            /\ Logged(i, Call("send", text, r))
            /\ IF r.ok
               THEN Goto(i, "drop_assign")
               ELSE Return(i, new_500_resp("fail to send telegram message", <<r.val>>))
    /\ UNCHANGED <<assign, marks, marks0, req, packager, drop_err, task>>

\* a drop whose error ends the request
DropAssign_fatal(i) ==
    /\ pc[i] = "drop_assign"
    /\ \E o \in drop_assign(assign, req[i].pkgname, packager[i].tg_uid) :
        /\ assign' = o.asg
        /\ Logged(i, Call("dropAssignment", <<req[i].pkgname, packager[i].tg_uid>>, o.res))
        /\ IF o.res.ok
           THEN /\ Goto(i, "await_tasks")
                /\ task' = [task EXCEPT ![i] = Spawned]
           ELSE /\ Return(i, new_500_resp("fail to drop assignment", <<o.res.val>>))
                /\ UNCHANGED task
    /\ UNCHANGED <<marks, marks0, req, packager, drop_err>>

\* a drop after which the failure notification is sent whatever the result
DropAssign_always_notify(i) ==
    /\ pc[i] = "drop_assign"
    /\ \E o \in drop_assign(assign, req[i].pkgname, packager[i].tg_uid) :
        /\ assign' = o.asg
        /\ Logged(i, Call("dropAssignment", <<req[i].pkgname, packager[i].tg_uid>>, o.res))
        /\ Goto(i, "send_failed")
        /\ drop_err' = [drop_err EXCEPT ![i] = o.res.val]
        /\ UNCHANGED task
    /\ UNCHANGED <<marks, marks0, req, packager>>

\* a drop that is given some package name, not the one of the request
DropAssign_any_pkg(i) ==
    /\ pc[i] = "drop_assign"
    /\ \E n \in Packages : \E o \in drop_assign(assign, n, packager[i].tg_uid) :
        /\ assign' = o.asg
        /\ Logged(i, Call("dropAssignment", <<n, packager[i].tg_uid>>, o.res))
        /\ IF o.res.ok
           THEN /\ Goto(i, "await_tasks")
                /\ task' = [task EXCEPT ![i] = Spawned]
                /\ UNCHANGED drop_err
           ELSE /\ Goto(i, "send_failed")
                /\ drop_err' = [drop_err EXCEPT ![i] = o.res.val]
                /\ UNCHANGED task
    /\ UNCHANGED <<marks, marks0, req, packager>>

\* a drop that is given some packager's identity, not the resolved one
DropAssign_any_uid(i) ==
    /\ pc[i] = "drop_assign"
    /\ \E p \in Packagers : \E o \in drop_assign(assign, req[i].pkgname, p.tg_uid) :
        /\ assign' = o.asg
        /\ Logged(i, Call("dropAssignment", <<req[i].pkgname, p.tg_uid>>, o.res))
        /\ IF o.res.ok
           THEN /\ Goto(i, "await_tasks")
                /\ task' = [task EXCEPT ![i] = Spawned]
                /\ UNCHANGED drop_err
           ELSE /\ Goto(i, "send_failed")
                /\ drop_err' = [drop_err EXCEPT ![i] = o.res.val]
                /\ UNCHANGED task
    /\ UNCHANGED <<marks, marks0, req, packager>>

\* line 152; when it succeeds the handler goes on to spawn the cleanup task
DropAssign(i) ==
    /\ pc[i] = "drop_assign"
    /\ \E o \in drop_assign(assign, req[i].pkgname, packager[i].tg_uid) :
        /\ assign' = o.asg
        /\ Logged(i, Call("dropAssignment", <<req[i].pkgname, packager[i].tg_uid>>, o.res))
        /\ IF o.res.ok
           THEN /\ Goto(i, "await_tasks")
                /\ task' = [task EXCEPT ![i] = Spawned]
                /\ UNCHANGED drop_err
           ELSE /\ Goto(i, "send_failed")
                /\ drop_err' = [drop_err EXCEPT ![i] = o.res.val]
                /\ UNCHANGED task
    /\ UNCHANGED <<marks, marks0, req, packager>>

\* a failure send whose error is not returned
SendFailed_no_return(i) ==
    /\ pc[i] = "send_failed"
    /\ LET text == failed_text(drop_err[i])
       IN  \E r \in send_message(text) :
            /\ Logged(i, Call("send", text, r))
            /\ Goto(i, "await_tasks")
            /\ task' = [task EXCEPT ![i] = Spawned]
    /\ UNCHANGED <<assign, marks, marks0, req, packager, drop_err>>

\* a failure send whose error is returned after the task was spawned
SendFailed_spawn_first(i) ==
    /\ pc[i] = "send_failed"
    /\ LET text == failed_text(drop_err[i])
       IN  \E r \in send_message(text) :
            /\ Logged(i, Call("send", text, r))
            /\ task' = [task EXCEPT ![i] = Spawned]
            /\ IF r.ok
               THEN Goto(i, "await_tasks")
               ELSE Return(i, new_500_resp("fail to send telegram message", <<r.val>>))
    /\ UNCHANGED <<assign, marks, marks0, req, packager, drop_err>>

\* lines 153-160
SendFailed(i) ==
    /\ pc[i] = "send_failed"
    /\ LET text == failed_text(drop_err[i])
       IN  \E r \in send_message(text) :
            /\ Logged(i, Call("send", text, r))
            /\ IF r.ok
               THEN /\ Goto(i, "await_tasks")
                    /\ task' = [task EXCEPT ![i] = Spawned]
               ELSE /\ Return(i, new_500_resp("fail to send telegram message", <<r.val>>))
                    /\ UNCHANGED task
    /\ UNCHANGED <<assign, marks, marks0, req, packager, drop_err>>

\* ---- the spawned task -----------------------------------------------------
\* lines 162-174
RemoveMarks(i) ==
    /\ task[i].pc = "remove_marks"
    /\ \E o \in remove_marks(marks, req[i].pkgname, mark_filter) :
        /\ marks' = o.mks
        /\ Logged(i, Call("removeMarks", [pkgname |-> req[i].pkgname, filter |-> mark_filter], o.res))
        /\ task' = [task EXCEPT ![i].pc = "send_cleanup", ![i].removed = o.res]
    /\ UNCHANGED <<assign, marks0, pc, req, packager, drop_err, resp>>

\* lines 175-191: the task's value is the result of the send
cleanup_text(pkgname, result) ==
    IF result.ok THEN unmark_text(pkgname, result.val)
    ELSE mark_fail_text(pkgname, result.val)

SendCleanup(i) ==
    /\ task[i].pc = "send_cleanup"
    /\ LET text == cleanup_text(req[i].pkgname, task[i].removed)
       IN  \E r \in send_message(text) :
            /\ Logged(i, Call("send", text, r))
            /\ task' = [task EXCEPT ![i].pc = "finished", ![i].sent = r]
    /\ UNCHANGED <<assign, marks, marks0, pc, req, packager, drop_err, resp>>

\* ---- back in the handler --------------------------------------------------
\* lines 194-201: `t.await` yields Result<Result<(), _>, JoinError>; only the
\* outer JoinError is looked at, and the response built for it is dropped.
\* The task neither panics nor is aborted, so the outer result is Ok.
final_resp(join_result) ==
    new_200_msg(<<"package deleted">>)

\* a handler that answers without awaiting the task
AwaitTasks_no_wait(i) ==
    /\ pc[i] = "await_tasks"
    /\ Return(i, final_resp(Ok(task[i].sent)))
    /\ UNCHANGED <<assign, marks, marks0, req, packager, drop_err, task, log>>

AwaitTasks(i) ==
    /\ pc[i] = "await_tasks"
    /\ task[i].pc = "finished"
    /\ Return(i, final_resp(Ok(task[i].sent)))
    /\ UNCHANGED <<assign, marks, marks0, req, packager, drop_err, task, log>>

Next ==
    \E i \in Invocations :
        \/ Request(i)
        \/ FindPackager(i)
        \/ SendPrimary(i)
        \/ DropAssign(i)
        \/ SendFailed(i)
        \/ RemoveMarks(i)
        \/ SendCleanup(i)
        \/ AwaitTasks(i)

Spec == Init /\ [][Next]_vars

TypeOK ==
    /\ UniqueAssign(assign)
    /\ \A i \in Invocations : pc[i] \in
        {"idle", "find_packager", "send_primary", "drop_assign", "send_failed",
         "await_tasks", "done"}

\* ---- reading the record of an invocation ----------------------------------
Started(i) == pc[i] /= "idle"
Finished(i) == pc[i] = "done"
At(i) == 1..Len(log[i])
IsCall(i, k, op) == log[i][k].op = op
IsSend(i, k) == IsCall(i, k, "send")
StoreOps == {"findPackager", "dropAssignment", "removeMarks"}
NoCallOf(i, ops) == \A k \in At(i) : log[i][k].op \notin ops
IsPrimaryText(t) ==
    Len(t) >= 2 /\ t[1] = "<code>(auto-merge)</code>" /\ t[2] = " ping "
IsFailedText(t) ==
    Len(t) >= 2 /\ t[1] = "<code>(auto-merge)</code>" /\ t[2] = " failed: "
IsUnmarkText(t) == Len(t) >= 1 /\ t[1] = "<code>(auto-unmark)</code> "
Is500(r) == r.code = 500 /\ r.status = "Fail"
IsSuccess(r) ==
    /\ r.code = 200
    /\ r.status = "Ok"
    /\ r.msg = "Request success"
    /\ r.detail = <<"package deleted">>

\* C1: an invocation whose credential differs from the configured secret ends
\* at once with the 403 Fail envelope and calls neither the store nor the
\* notifier, whatever its status value is.
C1_WrongTokenRejected ==
    \A i \in Invocations :
        (Started(i) /\ req[i].token /= "secret") =>
            /\ Finished(i)
            /\ resp[i].code = 403
            /\ resp[i].status = "Fail"
            /\ log[i] = <<>>
            /\ task[i].pc = "none"

C1_Witness ==
    \E i \in Invocations :
        /\ Finished(i)
        /\ req[i].token = "wrong"
        /\ req[i].status = "bogus"
        /\ resp[i].code = 403

\* C2 as stated: every invocation whose status is outside {ftbfs, leaf} ends
\* with the 400 envelope and calls neither the store nor the notifier.
C2_Original ==
    \A i \in Invocations :
        (Started(i) /\ req[i].status \notin {"ftbfs", "leaf"}) =>
            /\ Finished(i)
            /\ resp[i].code = 400
            /\ resp[i].status = "Fail"
            /\ log[i] = <<>>

\* C2 amended: an invocation whose status is outside {ftbfs, leaf} calls
\* neither the store nor the notifier, and when its credential is the
\* configured secret it ends with the 400 Fail envelope, whose detail echoes
\* the offending value.
C2_BadStatusRejected ==
    \A i \in Invocations :
        (Started(i) /\ req[i].status \notin {"ftbfs", "leaf"}) =>
            /\ Finished(i)
            /\ log[i] = <<>>
            /\ task[i].pc = "none"
            /\ req[i].token = "secret" =>
                /\ resp[i].code = 400
                /\ resp[i].status = "Fail"
                /\ Contains(resp[i].detail, req[i].status)

C2_Witness ==
    \E i \in Invocations :
        /\ Finished(i)
        /\ req[i].token = "secret"
        /\ req[i].status = "bogus"
        /\ resp[i].code = 400

\* C3: when findPackager returns an error, not-found or store error, the
\* invocation ends with a 500 outcome and that call is the only collaborator
\* call it ever makes: no notification, no dropAssignment, no removeMarks.
C3_FindFailureAborts ==
    \A i \in Invocations : \A k \in At(i) :
        (IsCall(i, k, "findPackager") /\ ~log[i][k].res.ok) =>
            /\ req[i].token = "secret"
            /\ req[i].status \in {"ftbfs", "leaf"}
            /\ Finished(i)
            /\ Is500(resp[i])
            /\ Len(log[i]) = 1
            /\ NoCallOf(i, {"send", "dropAssignment", "removeMarks"})
            /\ task[i].pc = "none"

C3_Witness ==
    /\ \E i \in Invocations :
        /\ Finished(i)
        /\ Len(log[i]) = 1
        /\ log[i][1].res = Err("no rows returned by a query")
    /\ \E i \in Invocations :
        /\ Finished(i)
        /\ Len(log[i]) = 1
        /\ log[i][1].res = Err("database is locked")

\* C4: when the send of the primary notification fails, the invocation ends
\* with a 500 outcome and makes no further call: no dropAssignment, no
\* removeMarks, no other notification.
C4_PrimaryFailureAborts ==
    \A i \in Invocations : \A k \in At(i) :
        (IsSend(i, k) /\ IsPrimaryText(log[i][k].arg) /\ ~log[i][k].res.ok) =>
            /\ Finished(i)
            /\ Is500(resp[i])
            /\ Len(log[i]) = k
            /\ NoCallOf(i, {"dropAssignment", "removeMarks"})
            /\ \A j \in At(i) : IsSend(i, j) => j = k
            /\ task[i].pc = "none"

C4_Witness ==
    \E i \in Invocations :
        /\ Finished(i)
        /\ Len(log[i]) = 2
        /\ IsSend(i, 2)
        /\ IsPrimaryText(log[i][2].arg)
        /\ ~log[i][2].res.ok
        /\ <<req[i].pkgname, packager[i].tg_uid>> \in assign

\* C5: when dropAssignment fails and the failure notification that follows is
\* sent, that notification's text contains the raw error of dropAssignment,
\* the cleanup task is started, and a finished invocation has called
\* removeMarks and returned the success envelope.
C5_DropFailureAbsorbed ==
    \A i \in Invocations : \A k \in At(i) :
        (/\ IsCall(i, k, "dropAssignment")
         /\ ~log[i][k].res.ok
         /\ k < Len(log[i])
         /\ log[i][k + 1].res.ok) =>
            /\ IsSend(i, k + 1)
            /\ IsFailedText(log[i][k + 1].arg)
            /\ Contains(log[i][k + 1].arg, log[i][k].res.val)
            /\ task[i].pc /= "none"
            /\ pc[i] \in {"await_tasks", "done"}
            /\ Finished(i) =>
                /\ IsSuccess(resp[i])
                /\ \E j \in At(i) : j > k + 1 /\ IsCall(i, j, "removeMarks")

C5_Witness ==
    \E i \in Invocations : \E k \in At(i) :
        /\ IsCall(i, k, "dropAssignment")
        /\ ~log[i][k].res.ok
        /\ k < Len(log[i])
        /\ log[i][k + 1].res.ok
        /\ Finished(i)
        /\ resp[i].code = 200

\* C6: when the send made by the cleanup step fails, after removeMarks
\* succeeded or after it failed, the invocation returns a 500 Fail outcome.
C6_CleanupSendFailureEscalates ==
    \A i \in Invocations :
        (Finished(i) /\ task[i].pc = "finished" /\ ~task[i].sent.ok) =>
            Is500(resp[i])

\* C7: when dropAssignment fails and the send of the failure notification
\* fails too, the invocation returns a 500 Fail outcome.
C7_DropAndNotifyFailure ==
    \A i \in Invocations : \A k \in At(i) :
        (/\ IsCall(i, k, "dropAssignment")
         /\ ~log[i][k].res.ok
         /\ k < Len(log[i])
         /\ ~log[i][k + 1].res.ok) =>
            /\ IsSend(i, k + 1)
            /\ IsFailedText(log[i][k + 1].arg)
            /\ Finished(i)
            /\ Is500(resp[i])

C7_Witness ==
    \E i \in Invocations : \E k \in At(i) :
        /\ IsCall(i, k, "dropAssignment")
        /\ ~log[i][k].res.ok
        /\ k < Len(log[i])
        /\ IsSend(i, k + 1)
        /\ ~log[i][k + 1].res.ok
        /\ Finished(i)

\* C8: an authorized invocation with a valid status whose findPackager
\* succeeded and whose every attempted send succeeded returns, once it is
\* finished, the 200 Ok envelope with the fixed confirmation message,
\* whether dropAssignment and removeMarks succeeded or failed.
C8_AllSendsOkIsSuccess ==
    \A i \in Invocations :
        (/\ Finished(i)
         /\ req[i].token = "secret"
         /\ req[i].status \in {"ftbfs", "leaf"}
         /\ \E k \in At(i) : IsCall(i, k, "findPackager") /\ log[i][k].res.ok
         /\ \A k \in At(i) : IsSend(i, k) => log[i][k].res.ok) =>
            IsSuccess(resp[i])

C8_Witness ==
    \E i \in Invocations :
        /\ Finished(i)
        /\ \A k \in At(i) : IsSend(i, k) => log[i][k].res.ok
        /\ \E k \in At(i) : IsCall(i, k, "dropAssignment") /\ ~log[i][k].res.ok
        /\ \E k \in At(i) : IsCall(i, k, "removeMarks") /\ ~log[i][k].res.ok
        /\ Len(log[i]) = 6

\* C9: every mark whose name is outside the vocabulary {outdated, stuck,
\* ready, outdated_dep, missing_dep, unknown, ignore, failing} that the store
\* held at start is still there, whatever invocations ran, and every
\* removeMarks call carries exactly this vocabulary as its filter.
Vocabulary ==
    {"outdated", "stuck", "ready", "outdated_dep", "missing_dep", "unknown",
     "ignore", "failing"}

C9_ForeignMarksSurvive ==
    /\ \A m \in marks0 : m[2] \notin Vocabulary => m \in marks
    /\ \A i \in Invocations : \A k \in At(i) :
        IsCall(i, k, "removeMarks") =>
            /\ log[i][k].arg.filter.some
            /\ log[i][k].arg.filter.names = Vocabulary
            /\ log[i][k].arg.pkgname = req[i].pkgname

C9_Witness ==
    \E i \in Invocations :
        /\ Finished(i)
        /\ resp[i].code = 200
        /\ <<req[i].pkgname, "custom">> \in marks0
        /\ <<req[i].pkgname, "custom">> \in marks
        /\ <<req[i].pkgname, "stuck">> \in marks0
        /\ <<req[i].pkgname, "stuck">> \notin marks

\* C10: when removeMarks fails, the one notification the cleanup step sends
\* is not the auto-unmark one and embeds the raw removeMarks error, nothing
\* else is sent after it, and the finished invocation returns success when
\* that send succeeded.
C10_RemoveFailureReported ==
    \A i \in Invocations : \A k \in At(i) :
        (IsCall(i, k, "removeMarks") /\ ~log[i][k].res.ok) =>
            /\ Len(log[i]) <= k + 1
            /\ \A j \in At(i) : IsSend(i, j) => ~IsUnmarkText(log[i][j].arg)
            /\ task[i].pc = "finished" => Len(log[i]) = k + 1
            /\ Len(log[i]) = k + 1 =>
                /\ IsSend(i, k + 1)
                /\ Contains(log[i][k + 1].arg, log[i][k].res.val)
                /\ Contains(log[i][k + 1].arg, req[i].pkgname)
            /\ (Finished(i) /\ log[i][k + 1].res.ok) => IsSuccess(resp[i])

C10_Witness ==
    \E i \in Invocations : \E k \in At(i) :
        /\ IsCall(i, k, "removeMarks")
        /\ ~log[i][k].res.ok
        /\ Finished(i)
        /\ log[i][k + 1].res.ok
        /\ resp[i].code = 200

\* ---- reading the texts ----------------------------------------------------
\* the names listed at the end of an auto-unmark text, the commas taken out
Listed(t) == [n \in 1..((Len(t) - 2) \div 2) |-> t[2 + 2 * n]]
CommasBetween(t) == \A n \in 5..Len(t) : (n % 2 = 1) => t[n] = ","
Elems(seq) == {seq[n] : n \in 1..Len(seq)}
AllOk(i) == \A k \in At(i) : log[i][k].res.ok
Mentions(t, p, pkgname) ==
    /\ Contains(t, p.alias)
    /\ Contains(t, ToString(p.tg_uid))
    /\ Contains(t, pkgname)

\* C11: happy path. A finished invocation with the right credential and a
\* valid status whose every store and notifier call succeeded made exactly
\* the five calls findPackager, primary send, dropAssignment, removeMarks,
\* cleanup send; its primary text mentions the alias and identity of the
\* packager found and the package name; dropAssignment got that (package,
\* packager) pair; the cleanup text lists the marks removeMarks removed; the
\* envelope is Ok; the package is then unassigned and carries no
\* in-vocabulary mark, each such mark it held at start having been removed by
\* some removeMarks call on the package.
C11_HappyPath ==
    \A i \in Invocations :
        (Finished(i) /\ log[i] /= <<>> /\ AllOk(i)) =>
            LET pkgname == req[i].pkgname
                p == log[i][1].res.val
            IN  /\ req[i].token = "secret"
                /\ req[i].status \in {"ftbfs", "leaf"}
                /\ Len(log[i]) = 5
                /\ IsCall(i, 1, "findPackager")
                /\ IsSend(i, 2) /\ IsPrimaryText(log[i][2].arg)
                /\ Mentions(log[i][2].arg, p, pkgname)
                /\ IsCall(i, 3, "dropAssignment")
                /\ log[i][3].arg = <<pkgname, p.tg_uid>>
                /\ IsCall(i, 4, "removeMarks")
                /\ IsSend(i, 5) /\ IsUnmarkText(log[i][5].arg)
                /\ Contains(log[i][5].arg, pkgname)
                /\ Elems(Listed(log[i][5].arg)) = Elems(log[i][4].res.val)
                /\ IsSuccess(resp[i])
                /\ \A a \in assign : a[1] /= pkgname
                /\ \A m \in marks : m[1] = pkgname => m[2] \notin Vocabulary
                /\ \A m \in marks0 :
                    (m[1] = pkgname /\ m[2] \in Vocabulary) =>
                        \E j \in Invocations : \E k \in At(j) :
                            /\ IsCall(j, k, "removeMarks")
                            /\ log[j][k].res.ok
                            /\ log[j][k].arg.pkgname = pkgname
                            /\ m[2] \in Elems(log[j][k].res.val)

\* the scenario of the specification: foo of alice (42), marks stuck and ready
C11_Witness ==
    \E i \in Invocations :
        /\ Finished(i) /\ Len(log[i]) = 5 /\ AllOk(i)
        /\ req[i].pkgname = "foo"
        /\ req[i].status = "ftbfs"
        /\ log[i][1].res.val = [tg_uid |-> 42, alias |-> "alice"]
        /\ marks0 = {<<"foo", "stuck">>, <<"foo", "ready">>}
        /\ Elems(log[i][4].res.val) = {"stuck", "ready"}
        /\ resp[i].status = "Ok"

\* C12 (its notification half and its status classes): a finished invocation
\* returned 500 whenever one of its notification sends failed, returned 200
\* only with the success envelope, 400 when its status is outside the
\* allowed set (the credential being right) and 403 when its credential
\* mismatches.
C12_StatusCodes ==
    \A i \in Invocations :
        Finished(i) =>
            /\ (\E k \in At(i) : IsSend(i, k) /\ ~log[i][k].res.ok) => Is500(resp[i])
            /\ resp[i].code = 200 => IsSuccess(resp[i])
            /\ (req[i].token = "secret" /\ req[i].status \notin {"ftbfs", "leaf"}) =>
                resp[i].code = 400
            /\ req[i].token /= "secret" => resp[i].code = 403

\* C15: no retries. An invocation calls each of findPackager, dropAssignment
\* and removeMarks at most once, sends each kind of notification (primary,
\* drop-failure, cleanup) at most once and so at most three in all, and when
\* it has finished every failed call was either escalated (a 500 outcome) or
\* reported by the one notification that follows it.
CallsOf(i, op) == {k \in At(i) : IsCall(i, k, op)}
SendsOf(i, Kind(_)) == {k \in At(i) : IsSend(i, k) /\ Kind(log[i][k].arg)}
IsCleanupText(t) ==
    IsUnmarkText(t) \/ (Len(t) >= 1 /\ t[1] = "fail to delete marks for ")
AnyText(t) == TRUE

C15_NoRetries ==
    \A i \in Invocations :
        /\ \A op \in StoreOps : Cardinality(CallsOf(i, op)) <= 1
        /\ Cardinality(SendsOf(i, IsPrimaryText)) <= 1
        /\ Cardinality(SendsOf(i, IsFailedText)) <= 1
        /\ Cardinality(SendsOf(i, IsCleanupText)) <= 1
        /\ Cardinality(SendsOf(i, AnyText)) <= 3
        /\ Finished(i) =>
            \A k \in At(i) :
                ~log[i][k].res.ok =>
                    \/ Is500(resp[i])
                    \/ /\ k < Len(log[i])
                       /\ IsSend(i, k + 1)
                       /\ log[i][k + 1].res.ok
                       /\ Contains(log[i][k + 1].arg, log[i][k].res.val)

\* C13: the calls of one invocation come one after the other and only in the
\* order findPackager, primary send, dropAssignment, drop-failure send (only
\* when dropAssignment failed), removeMarks, cleanup send, each made after
\* the one before it returned; the handler and its cleanup task are never
\* both at a call: while the task is at removeMarks or at its send the
\* handler only awaits it, and while the handler is at a call no task exists.
StepAt(i, k) ==
    LET dropped == Len(log[i]) >= 3 /\ log[i][3].res.ok
    IN  CASE k = 1 -> IsCall(i, 1, "findPackager")
          [] k = 2 -> log[i][1].res.ok /\ IsSend(i, 2) /\ IsPrimaryText(log[i][2].arg)
          [] k = 3 -> log[i][2].res.ok /\ IsCall(i, 3, "dropAssignment")
          [] k = 4 -> IF dropped THEN IsCall(i, 4, "removeMarks")
                      ELSE IsSend(i, 4) /\ IsFailedText(log[i][4].arg)
          [] k = 5 -> IF dropped THEN IsSend(i, 5) /\ IsCleanupText(log[i][5].arg)
                      ELSE log[i][4].res.ok /\ IsCall(i, 5, "removeMarks")
          [] k = 6 -> ~dropped /\ IsSend(i, 6) /\ IsCleanupText(log[i][6].arg)
          [] OTHER -> FALSE

HandlerAtCall(i) ==
    pc[i] \in {"find_packager", "send_primary", "drop_assign", "send_failed"}
TaskAtCall(i) == task[i].pc \in {"remove_marks", "send_cleanup"}

C13_StrictSequence ==
    \A i \in Invocations :
        /\ \A k \in At(i) : StepAt(i, k)
        /\ TaskAtCall(i) => pc[i] = "await_tasks"
        /\ HandlerAtCall(i) => task[i].pc = "none"

C13_Witness ==
    \E i \in Invocations :
        /\ Finished(i)
        /\ Len(log[i]) = 6
        /\ IsCall(i, 5, "removeMarks")
        /\ IsSend(i, 6)

\* C14: the handler does not answer before its cleanup task has finished:
\* while the task is at removeMarks or at its send no response exists, and a
\* finished invocation that spawned the task has the finished task's send,
\* successful or not, as the last call of its record.
C14_ResponseAfterCleanup ==
    \A i \in Invocations :
        /\ TaskAtCall(i) => (resp[i] = NoResp /\ ~Finished(i))
        /\ (Finished(i) /\ task[i].pc /= "none") =>
            /\ task[i].pc = "finished"
            /\ IsSend(i, Len(log[i]))
            /\ IsCleanupText(log[i][Len(log[i])].arg)
            /\ log[i][Len(log[i])].res = task[i].sent
        /\ (Finished(i) /\ \E k \in At(i) : IsCall(i, k, "removeMarks")) =>
            task[i].pc = "finished"

C14_Witness ==
    \E i \in Invocations :
        /\ Finished(i)
        /\ task[i].pc = "finished"
        /\ ~task[i].sent.ok
        /\ resp[i] /= NoResp

\* C16: when removeMarks succeeds the cleanup step sends exactly one
\* notification, the auto-unmark one, and the names it lists, separated by
\* commas, are exactly the sequence removeMarks returned, in its order; with
\* an empty sequence the notification is still sent, listing nothing.
C16_UnmarkListsRemoved ==
    \A i \in Invocations : \A k \in At(i) :
        (IsCall(i, k, "removeMarks") /\ log[i][k].res.ok) =>
            LET removed == log[i][k].res.val
            IN  /\ Len(log[i]) <= k + 1
                /\ task[i].pc = "finished" => Len(log[i]) = k + 1
                /\ Len(log[i]) = k + 1 =>
                    LET t == log[i][k + 1].arg
                    IN  /\ IsSend(i, k + 1)
                        /\ IsUnmarkText(t)
                        /\ Contains(t, req[i].pkgname)
                        /\ Len(t) = 3 + (IF removed = <<>> THEN 0 ELSE 2 * Len(removed) - 1)
                        /\ CommasBetween(t)
                        /\ Listed(t) = removed
                        /\ SendsOf(i, IsCleanupText) = {k + 1}

C16_Witness ==
    /\ \E i \in Invocations : \E k \in At(i) :
        /\ IsCall(i, k, "removeMarks")
        /\ log[i][k].res = Ok(<<"ready", "stuck">>)
        /\ Len(log[i]) = k + 1
        /\ Len(log[i][k + 1].arg) = 6
    /\ \E i \in Invocations : \E k \in At(i) :
        /\ IsCall(i, k, "removeMarks")
        /\ log[i][k].res = Ok(<<>>)
        /\ Len(log[i]) = k + 1
        /\ Len(log[i][k + 1].arg) = 3

\* C18: when dropAssignment fails and the send of the failure notification
\* fails too, the invocation returns at once: that send is its last call, no
\* cleanup task is spawned, removeMarks is never called and no cleanup
\* notification is sent.
C18_NoCleanupAfterDoubleFailure ==
    \A i \in Invocations : \A k \in At(i) :
        (/\ IsCall(i, k, "dropAssignment")
         /\ ~log[i][k].res.ok
         /\ k < Len(log[i])
         /\ ~log[i][k + 1].res.ok) =>
            /\ Len(log[i]) = k + 1
            /\ Finished(i)
            /\ task[i] = NoTask
            /\ NoCallOf(i, {"removeMarks"})
            /\ SendsOf(i, IsCleanupText) = {}

C18_Witness ==
    \E i \in Invocations :
        /\ Finished(i)
        /\ Len(log[i]) = 4
        /\ IsCall(i, 3, "dropAssignment") /\ ~log[i][3].res.ok
        /\ IsSend(i, 4) /\ ~log[i][4].res.ok
        /\ \E m \in marks : m[1] = req[i].pkgname /\ m[2] \in Vocabulary

\* C19: an invocation sends the drop-failure notification only right after a
\* dropAssignment call of its own that returned an error, and after such a
\* call it is the next thing it does; when dropAssignment succeeded its only
\* notifications are the primary one and the cleanup one.
C19_FailureNoticeIffDropFailed ==
    \A i \in Invocations :
        /\ \A k \in At(i) :
            (IsSend(i, k) /\ IsFailedText(log[i][k].arg)) =>
                /\ k > 1
                /\ IsCall(i, k - 1, "dropAssignment")
                /\ ~log[i][k - 1].res.ok
        /\ \A k \in At(i) :
            (IsCall(i, k, "dropAssignment") /\ ~log[i][k].res.ok) =>
                IF k = Len(log[i]) THEN pc[i] = "send_failed"
                ELSE IsSend(i, k + 1) /\ IsFailedText(log[i][k + 1].arg)
        /\ \A k \in At(i) :
            (IsCall(i, k, "dropAssignment") /\ log[i][k].res.ok) =>
                /\ SendsOf(i, IsFailedText) = {}
                /\ pc[i] /= "send_failed"
                /\ \A j \in SendsOf(i, AnyText) :
                    IsPrimaryText(log[i][j].arg) \/ IsCleanupText(log[i][j].arg)
                /\ Cardinality(SendsOf(i, AnyText)) <= 2

C19_Witness ==
    /\ \E i \in Invocations :
        /\ Finished(i)
        /\ Len(log[i]) >= 3
        /\ IsCall(i, 3, "dropAssignment") /\ ~log[i][3].res.ok
        /\ Cardinality(SendsOf(i, AnyText)) = 3
    /\ \E i \in Invocations :
        /\ Finished(i)
        /\ Len(log[i]) >= 3
        /\ IsCall(i, 3, "dropAssignment") /\ log[i][3].res.ok
        /\ Cardinality(SendsOf(i, AnyText)) = 2

\* C20: every dropAssignment call of an invocation is given the package name
\* of its request and the identity of the packager its own findPackager call
\* returned, and the primary notification sent just before it names that
\* packager and that package.
C20_DropsWhatItResolved ==
    \A i \in Invocations : \A k \in At(i) :
        IsCall(i, k, "dropAssignment") =>
            /\ k = 3
            /\ IsCall(i, 1, "findPackager")
            /\ log[i][1].arg = <<req[i].pkgname>>
            /\ log[i][1].res.ok
            /\ log[i][1].res.val = packager[i]
            /\ log[i][3].arg = <<req[i].pkgname, log[i][1].res.val.tg_uid>>
            /\ IsSend(i, 2)
            /\ log[i][2].res.ok
            /\ IsPrimaryText(log[i][2].arg)
            /\ Mentions(log[i][2].arg, log[i][1].res.val, req[i].pkgname)

C20_Witness ==
    \E i, j \in Invocations :
        /\ Len(log[i]) >= 3 /\ Len(log[j]) >= 3
        /\ IsCall(i, 3, "dropAssignment")
        /\ IsCall(j, 3, "dropAssignment")
        /\ log[i][3].arg = <<"foo", 42>>
        /\ log[j][3].arg = <<"bar", 43>>

\* C17: under every interleaving of the invocations, on the same package or
\* on different ones, the store holds at most one assignment per package
\* before and after every step, no step adds an assignment, and an
\* assignment that a step removes is the (package, packager) pair resolved
\* by the invocation that takes its dropAssignment step.
C17_AtMostOneAssignment ==
    [][/\ UniqueAssign(assign)
       /\ UniqueAssign(assign')
       /\ assign' \subseteq assign
       /\ \A a \in assign \ assign' :
            \E i \in Invocations :
                /\ pc[i] = "drop_assign"
                /\ pc'[i] /= "drop_assign"
                /\ a = <<req[i].pkgname, packager[i].tg_uid>>
                /\ assign \ assign' = {a}]_vars

\* two invocations resolved the same assignment before either dropped it,
\* and both drops succeeded, while another package stays assigned
C17_Witness ==
    \E i, j \in Invocations :
        /\ i /= j
        /\ Len(log[i]) >= 3 /\ Len(log[j]) >= 3
        /\ req[i].pkgname = req[j].pkgname
        /\ log[i][1].res.ok /\ log[j][1].res.ok
        /\ IsCall(i, 3, "dropAssignment") /\ log[i][3].res.ok
        /\ IsCall(j, 3, "dropAssignment") /\ log[j][3].res.ok
        /\ assign /= {}
====
